---- MODULE Spec2Model ----
(***************************************************************************)
(* AstroBot: a model of src/astro_calc.py (AstroCalc, ManglikRule,         *)
(* MoonSignRule, VimshottariDasha) and src/app.py (lookup_place,           *)
(* answer_query).                                                          *)
(*                                                                         *)
(* Numbers.  Longitudes, differences and proportions are Python floats.    *)
(* They are modelled as a binary floating-point format with the rounding   *)
(* rules of IEEE-754 binary64 (round to nearest, ties to even, one         *)
(* rounding per arithmetic operation) and a shorter significand: a float   *)
(* is an integer count of quanta of 2^-FracBits degrees with at most Prec  *)
(* significant bits.  Strings are sequences of one-character strings.      *)
(* The Julian Day is kept exactly, in minutes (julian_day * 1440).         *)
(***************************************************************************)
EXTENDS Integers, Sequences, FiniteSets, TLC

VARIABLES
    birth,       \* AstroCalc.birth: the dictionary handed to __init__
    pc,          \* "new" | "constructed" | "error": how AstroCalc(birth) ended
    julian_day,  \* AstroCalc.julian_day, in minutes (-1: attribute not set)
    lat,         \* AstroCalc.lat, in 1e-4 degree
    lon,         \* AstroCalc.lon, in 1e-4 degree
    dt_ut,       \* the local dt_ut of _compute_julian_day
    nconv,       \* how many times _compute_julian_day ran on this object
    prev,        \* dt_ut and julian_day of the object built before this one
    todo,        \* the birth dictionaries still to be handed to AstroCalc, in order
    eph,         \* the ephemeris provider: raw longitude per body, raw ascendant
    calls,       \* the ephemeris calls made by the most recent operation
    op,          \* the most recent operation
    chart,       \* what compute_all last returned
    manglik,     \* what ManglikRule.check last returned
    moonres,     \* what MoonSignRule.get last returned
    dasha,       \* what VimshottariDasha.current_dasha last returned
    request,     \* the arguments of the last answer_query
    response,    \* what the last answer_query returned (or that it raised)
    arg,         \* the arguments of the function applied on its own
    ret          \* what that function returned

objVars == <<birth, pc, julian_day, lat, lon, dt_ut, nconv, prev, todo>>
resVars == <<chart, manglik, moonres, dasha>>
reqVars == <<request, response>>
funVars == <<arg, ret>>
vars == <<birth, pc, julian_day, lat, lon, dt_ut, nconv, prev, todo, eph, calls, op,
          chart, manglik, moonres, dasha, request, response, arg, ret>>

(***************************************************************************)
(* Floating point                                                          *)
(***************************************************************************)

\* The significand has 2 * PrecPairs + 1 bits (binary64: 2 * 26 + 1 = 53).
PrecPairs == 4

Prec == 2 * PrecPairs + 1

\* Exponent range: the quantum is 2^-FracBits; below 2^(Prec - FracBits)
\* the format is subnormal, as binary64 is below 2^-1022.
FracBits == Prec + 3

\* 1.0, in quanta
One == 2 ^ FracBits

\* The largest exponent (in quanta) of a float below 512.0
MaxExp == FracBits + 9 - Prec

\* Number of bits of n >= 0
BitLen(n) == CHOOSE k \in 0..30 : n < 2 ^ k /\ (k = 0 \/ 2 ^ (k - 1) <= n)

\* The spacing of the floats at magnitude n (the unit in the last place)
Ulp(n) == IF BitLen(n) > Prec THEN 2 ^ (BitLen(n) - Prec) ELSE 1

\* Round q + (rnum / rden) quanta, 0 <= rnum < rden, q >= 0, to the nearest
\* float, ties to the even significand.
RoundFrac(q, rnum, rden) ==
    LET u    == Ulp(q)
        k    == q \div u
        low  == q % u
        \* compare low + rnum/rden with u/2
        up   == IF u = 1
                THEN 2 * rnum > rden
                ELSE low > u \div 2 \/ (low = u \div 2 /\ rnum > 0)
        tie  == IF u = 1
                THEN 2 * rnum = rden
                ELSE low = u \div 2 /\ rnum = 0
    IN  IF up \/ (tie /\ k % 2 = 1) THEN (k + 1) * u ELSE k * u

\* Round an exact integer count of quanta to the nearest float.
RoundP(n) == IF n >= 0 THEN RoundFrac(n, 0, 1) ELSE 0 - RoundFrac(0 - n, 0, 1)

\* x - y
FSub(x, y) == RoundP(x - y)

\* x + y
FAdd(x, y) == RoundP(x + y)

\* i * y for an integer i (an exact float) and a float y
FMulInt(i, y) == RoundP(i * y)

\* Binary long division: the quotient (num * 2^bits) \div den and its
\* remainder, one bit at a time.
RECURSIVE LongDiv(_, _, _, _)
LongDiv(q, r, den, bits) ==
    IF bits = 0 THEN <<q, r>>
    ELSE IF 2 * r >= den THEN LongDiv(2 * q + 1, 2 * r - den, den, bits - 1)
         ELSE LongDiv(2 * q, 2 * r, den, bits - 1)

\* x / y for floats x >= 0, y > 0
FDiv(x, y) ==
    LET qr == LongDiv(x \div y, x % y, y, FracBits)
    IN  RoundFrac(qr[1], qr[2], y)

\* Python's float %: fmod (exact, with the sign of x), then w added once when
\* the remainder is non-zero and its sign differs from w's (w > 0 here).
PyMod(x, w) ==
    LET r == IF x >= 0 THEN x % w ELSE 0 - ((0 - x) % w)
    IN  IF r < 0 THEN FAdd(r, w) ELSE r

\* int(x // w) for floats x >= 0, w > 0: the floor of the exact quotient
FloorDivInt(x, w) == x \div w

\* Every float in [0, 360)
Floats360 ==
    {n \in {m * 2 ^ e : m \in 0..(2 ^ Prec - 1), e \in 0..MaxExp} : n < 360 * One}

(***************************************************************************)
(* AstroCalc: the ephemeris, the signs and the houses                      *)
(***************************************************************************)

\* PLANETS, in the order of the dictionary
PLANETS == <<"Sun", "Moon", "Mars", "Mercury", "Jupiter", "Venus", "Saturn">>

PlanetNames == {PLANETS[i] : i \in 1..Len(PLANETS)}

ZODIAC == <<"Aries", "Taurus", "Gemini", "Cancer", "Leo", "Virgo", "Libra",
            "Scorpio", "Sagittarius", "Capricorn", "Aquarius", "Pisces">>

\* swe.calc_ut(self.julian_day, pid)[0][0]: the provider has no state
CalcUt(e, name) == e.lon[name]

\* swe.houses(self.julian_day, self.lat, self.lon)[0][0]
SweHouses(e) == e.asc

\* planet_longitudes(): one calc_ut per planet, each normalised % 360.0
PlanetLongitudes(e) == [name \in PlanetNames |-> PyMod(CalcUt(e, name), 360 * One)]

PlanetLongitudesCalls == [i \in 1..Len(PLANETS) |-> PLANETS[i]]

\* ascendant()
Ascendant(e) == PyMod(SweHouses(e), 360 * One)

AscendantCalls == <<"houses">>

\* The house computed from a longitude and an ascendant (lines 170-172).
HouseFrom(planet_long, asc) ==
    LET diff == PyMod(FSub(planet_long, asc), 360 * One)
    IN  FloorDivInt(diff, 30 * One) + 1

\* house_of_planet(planet_long)
HouseOfPlanet(e, planet_long) == HouseFrom(planet_long, Ascendant(e))

HouseOfPlanetCalls == AscendantCalls

\* moon_sign()
MoonSign(e) ==
    LET moon_lon   == PlanetLongitudes(e)["Moon"]
        sign_index == FloorDivInt(moon_lon, 30 * One) % 12
    IN  <<ZODIAC[sign_index + 1], moon_lon>>

MoonSignCalls == PlanetLongitudesCalls

(***************************************************************************)
(* The rules                                                               *)
(***************************************************************************)

\* TRIGGER_HOUSES with house 8 left out
TRIGGER_HOUSES_Without8 == {1, 2, 4, 7, 12}

\* ManglikRule.TRIGGER_HOUSES
TRIGGER_HOUSES == {1, 2, 4, 7, 8, 12}

\* The explanation strings carry their numbers with three decimals: the
\* float x as a count of thousandths, rounded to nearest, ties to even.
Format3(x) ==
    LET a    == IF x >= 0 THEN x ELSE 0 - x
        num  == (a % One) * 1000
        q    == num \div One
        r    == num % One
        frac == IF 2 * r > One \/ (2 * r = One /\ q % 2 = 1) THEN q + 1 ELSE q
        t    == (a \div One) * 1000 + frac
    IN  IF x >= 0 THEN t ELSE 0 - t

\* The dictionary ManglikRule.check() returns
ManglikReturn(mars_lon, mars_house, is_manglik) ==
    [conclusion     |-> IF is_manglik THEN "Manglik" ELSE "Not Manglik",
     explanation    |-> [mars_lon |-> Format3(mars_lon), house |-> mars_house,
                         houses |-> TRIGGER_HOUSES],
     trigger        |-> is_manglik,
     mars_longitude |-> mars_lon,
     mars_house     |-> mars_house]

\* is_manglik = mars_house in ManglikRule.TRIGGER_HOUSES
ManglikOfHouse(mars_lon, mars_house) ==
    ManglikReturn(mars_lon, mars_house, mars_house \in TRIGGER_HOUSES)

\* check() taking the house from the sign of Mars, the ascendant left out
ManglikOfLongitude_NoAscendant(e, mars_lon) ==
    ManglikOfHouse(mars_lon, HouseFrom(mars_lon, 0))

\* mars_house = self.ac.house_of_planet(mars_lon)
ManglikOfLongitude(e, mars_lon) ==
    ManglikOfHouse(mars_lon, HouseOfPlanet(e, mars_lon))

\* ManglikRule.check()
ManglikCheck(e) == ManglikOfLongitude(e, PlanetLongitudes(e)["Mars"])

ManglikCheckCalls == PlanetLongitudesCalls \o HouseOfPlanetCalls

\* The dictionary MoonSignRule.get() returns
MoonSignReturn(ms) ==
    [moon_sign      |-> ms[1],
     moon_longitude |-> ms[2],
     explanation    |-> [moon_lon |-> Format3(ms[2]), sign |-> ms[1]]]

\* MoonSignRule.get()
MoonSignGet(e) == MoonSignReturn(MoonSign(e))

MoonSignGetCalls == MoonSignCalls

\* VimshottariDasha.SEQUENCE
SEQUENCE == <<"Ketu", "Venus", "Sun", "Moon", "Mars", "Rahu", "Jupiter", "Saturn", "Mercury">>

\* VimshottariDasha.LENGTHS
LENGTHS == [Ketu |-> 7, Venus |-> 20, Sun |-> 6, Moon |-> 10, Mars |-> 7,
            Rahu |-> 18, Jupiter |-> 16, Saturn |-> 19, Mercury |-> 17]

\* nak_deg = 360.0 / 27.0
NakDeg == FDiv(360 * One, 27 * One)

\* seq[rot:] + seq[:rot]
Rotate(seq, rot) == SubSeq(seq, rot + 1, Len(seq)) \o SubSeq(seq, 1, rot)

\* first_lord and remaining_years_first, from the locals before them
DashaLord(moon_lon, nak_index, deg_into_nak, prop, first_lord) ==
    [moon_lon     |-> moon_lon,
     nak_index    |-> nak_index,
     deg_into_nak |-> deg_into_nak,
     prop         |-> prop,
     first_lord   |-> first_lord,
     remaining_years_first |-> FMulInt(LENGTHS[first_lord], FSub(One, prop))]

\* prop, rot and the rotated sequence
DashaProp(moon_lon, nak_index, deg_into_nak) ==
    DashaLord(moon_lon, nak_index, deg_into_nak, FDiv(deg_into_nak, NakDeg),
              Rotate(SEQUENCE, nak_index % Len(SEQUENCE))[1])

\* deg_into_nak = moon_lon - (nak_index * nak_deg)
DashaIndex(moon_lon, nak_index) ==
    DashaProp(moon_lon, nak_index, FSub(moon_lon, FMulInt(nak_index, NakDeg)))

\* The locals of current_dasha() when it returns, for a Moon longitude
DashaLocals(moon_lon) == DashaIndex(moon_lon, FloorDivInt(moon_lon, NakDeg))

\* The dictionary current_dasha() returns
DashaReturn(l) ==
    [mahadasha      |-> l.first_lord,
     explanation    |-> [moon_lon  |-> Format3(l.moon_lon),
                         nak_index |-> l.nak_index,
                         deg       |-> Format3(l.deg_into_nak),
                         lord      |-> l.first_lord,
                         remaining |-> Format3(l.remaining_years_first)],
     moon_longitude |-> l.moon_lon]

\* VimshottariDasha.current_dasha()
CurrentDasha(e) == DashaReturn(DashaLocals(PlanetLongitudes(e)["Moon"]))

CurrentDashaCalls == PlanetLongitudesCalls

\* The dictionary compute_all() returns
ChartReturn(jd, longs, asc, houses, ms) ==
    [julian_day           |-> jd,
     planetary_longitudes |-> longs,
     ascendant            |-> asc,
     houses               |-> houses,
     moon_sign            |-> ms[1],
     moon_longitude       |-> ms[2]]

\* houses = {name: self.house_of_planet(lon) for name, lon in longs.items()}
ChartOfLongitudes(e, jd, longs) ==
    ChartReturn(jd, longs, Ascendant(e),
                [name \in PlanetNames |-> HouseOfPlanet(e, longs[name])],
                MoonSign(e))

\* compute_all()
ComputeAll(e, jd) == ChartOfLongitudes(e, jd, PlanetLongitudes(e))

RECURSIVE Repeat(_, _)
Repeat(s, n) == IF n = 0 THEN <<>> ELSE s \o Repeat(s, n - 1)

\* The ephemeris calls of compute_all(), in order
ComputeAllCalls ==
    PlanetLongitudesCalls \o AscendantCalls
        \o Repeat(HouseOfPlanetCalls, Len(PLANETS)) \o MoonSignCalls

(***************************************************************************)
(* Strings                                                                 *)
(***************************************************************************)

DIGITS == <<"0", "1", "2", "3", "4", "5", "6", "7", "8", "9">>

UPPER == <<"A", "B", "C", "D", "E", "F", "G", "H", "I", "J", "K", "L", "M",
           "N", "O", "P", "Q", "R", "S", "T", "U", "V", "W", "X", "Y", "Z">>

LOWER == <<"a", "b", "c", "d", "e", "f", "g", "h", "i", "j", "k", "l", "m",
           "n", "o", "p", "q", "r", "s", "t", "u", "v", "w", "x", "y", "z">>

IsDigit(c) == \E i \in 1..10 : DIGITS[i] = c

DigitVal(c) == (CHOOSE i \in 1..10 : DIGITS[i] = c) - 1

\* str.lower()
StrLower(s) ==
    [i \in 1..Len(s) |->
        IF \E j \in 1..26 : UPPER[j] = s[i]
        THEN LOWER[CHOOSE j \in 1..26 : UPPER[j] = s[i]]
        ELSE s[i]]

\* str.strip()
RECURSIVE StrStrip(_)
StrStrip(s) ==
    IF s = <<>> THEN s
    ELSE IF Head(s) = " " THEN StrStrip(Tail(s))
    ELSE IF s[Len(s)] = " " THEN StrStrip(SubSeq(s, 1, Len(s) - 1))
    ELSE s

\* str.split(sep) for a one-character separator: empty fields are kept
RECURSIVE StrSplit(_, _)
StrSplit(s, sep) ==
    IF \A i \in 1..Len(s) : s[i] # sep THEN <<s>>
    ELSE LET i == CHOOSE j \in 1..Len(s) :
                      s[j] = sep /\ \A k \in 1..(j - 1) : s[k] # sep
         IN  <<SubSeq(s, 1, i - 1)>> \o StrSplit(SubSeq(s, i + 1, Len(s)), sep)

\* str.split(): runs of blanks separate, no empty fields
RECURSIVE StrSplitBlank(_)
StrSplitBlank(s) ==
    LET t == StrStrip(s)
    IN  IF t = <<>> THEN <<>>
        ELSE IF \A i \in 1..Len(t) : t[i] # " " THEN <<t>>
        ELSE LET i == CHOOSE j \in 1..Len(t) :
                          t[j] = " " /\ \A k \in 1..(j - 1) : t[k] # " "
             IN  <<SubSeq(t, 1, i - 1)>> \o StrSplitBlank(SubSeq(t, i + 1, Len(t)))

\* str.replace(a, b) for one-character a and b
StrReplace(s, a, b) == [i \in 1..Len(s) |-> IF s[i] = a THEN b ELSE s[i]]

\* k in q
StrContains(q, k) ==
    \E i \in 0..(Len(q) - Len(k)) : SubSeq(q, i + 1, i + Len(k)) = k

RECURSIVE DigitsValue(_, _)
DigitsValue(s, acc) ==
    IF s = <<>> THEN acc ELSE DigitsValue(Tail(s), 10 * acc + DigitVal(Head(s)))

\* int(x): blanks around, an optional sign, then digits only
PyInt(x) ==
    LET t      == StrStrip(x)
        signed == t # <<>> /\ Head(t) \in {"+", "-"}
        body   == IF signed THEN Tail(t) ELSE t
        ok     == body # <<>> /\ \A i \in 1..Len(body) : IsDigit(body[i])
        mag    == IF ok THEN DigitsValue(body, 0) ELSE 0
    IN  [ok |-> ok, val |-> IF signed /\ Head(t) = "-" THEN 0 - mag ELSE mag]

\* float(x) of a decimal with at most two fractional digits, in hundredths
PyFloat(x) ==
    LET t      == StrStrip(x)
        signed == t # <<>> /\ Head(t) \in {"+", "-"}
        body   == IF signed THEN Tail(t) ELSE t
        parts  == StrSplit(body, ".")
        ip     == parts[1]
        fp     == IF Len(parts) = 2 THEN parts[2] ELSE <<>>
        ok     == /\ Len(parts) <= 2
                  /\ Len(ip) + Len(fp) > 0
                  /\ Len(fp) <= 2
                  /\ \A i \in 1..Len(ip) : IsDigit(ip[i])
                  /\ \A i \in 1..Len(fp) : IsDigit(fp[i])
        frac   == IF Len(fp) = 1 THEN 10 * DigitsValue(fp, 0) ELSE DigitsValue(fp, 0)
        mag    == IF ok THEN 100 * DigitsValue(ip, 0) + frac ELSE 0
    IN  [ok |-> ok, val |-> IF signed /\ Head(t) = "-" THEN 0 - mag ELSE mag]

(***************************************************************************)
(* datetime, timedelta and swe.julday                                      *)
(***************************************************************************)

\* datetime.MINYEAR, datetime.MAXYEAR and the ordinal of 9999-12-31
MINYEAR == 1

MAXYEAR == 9999

MAXORDINAL == 3652059

IsLeap(y) == y % 4 = 0 /\ (y % 100 # 0 \/ y % 400 = 0)

DAYS_IN_MONTH == <<31, 28, 31, 30, 31, 30, 31, 31, 30, 31, 30, 31>>

DaysInMonth(y, m) == IF m = 2 /\ IsLeap(y) THEN 29 ELSE DAYS_IN_MONTH[m]

RECURSIVE DaysBeforeMonthPlain(_)
DaysBeforeMonthPlain(m) ==
    IF m = 1 THEN 0 ELSE DaysBeforeMonthPlain(m - 1) + DAYS_IN_MONTH[m - 1]

DaysBeforeMonth(y, m) ==
    DaysBeforeMonthPlain(m) + (IF m > 2 /\ IsLeap(y) THEN 1 ELSE 0)

DaysBeforeYear(y) ==
    LET yy == y - 1 IN yy * 365 + yy \div 4 - yy \div 100 + yy \div 400

\* date.toordinal()
Ymd2Ord(y, m, d) == DaysBeforeYear(y) + DaysBeforeMonth(y, m) + d

\* date.fromordinal(n)
Ord2Ymd(n) ==
    LET n0   == n - 1
        n400 == n0 \div 146097
        r400 == n0 % 146097
        n100 == r400 \div 36524
        r100 == r400 % 36524
        n4   == r100 \div 1461
        r4   == r100 % 1461
        n1   == r4 \div 365
        r1   == r4 % 365
        year == n400 * 400 + 1 + n100 * 100 + n4 * 4 + n1
        leap == n1 = 3 /\ (n4 # 24 \/ n100 = 3)
        mon0 == (r1 + 50) \div 32
        pre0 == DaysBeforeMonthPlain(mon0) + (IF mon0 > 2 /\ leap THEN 1 ELSE 0)
        back == pre0 > r1
        mon  == IF back THEN mon0 - 1 ELSE mon0
        pre  == IF back
                THEN pre0 - (DAYS_IN_MONTH[mon] + (IF mon = 2 /\ leap THEN 1 ELSE 0))
                ELSE pre0
    IN  IF n1 = 4 \/ n100 = 4 THEN <<year - 1, 12, 31>>
        ELSE <<year, mon, r1 - pre + 1>>

\* The range checks of datetime() with every month taken to have 31 days
ValidDatetime_AnyMonth31(y, m, d, h, mi) ==
    /\ y \in MINYEAR..MAXYEAR
    /\ m \in 1..12
    /\ d \in 1..31
    /\ h \in 0..23
    /\ mi \in 0..59

\* datetime(year, month, day, hour, minute) raises ValueError unless valid
ValidDatetime(y, m, d, h, mi) ==
    /\ y \in MINYEAR..MAXYEAR
    /\ m \in 1..12
    /\ d \in 1..DaysInMonth(y, m)
    /\ h \in 0..23
    /\ mi \in 0..59

\* timedelta(hours=tz) in seconds, for tz in hundredths of an hour (the
\* microsecond rounding of the constructor absorbs the float error of tz * 3600)
TimedeltaHours(tz) == tz * 36

\* The datetime of an ordinal and a second of the day; OverflowError when the
\* ordinal leaves 1..MAXORDINAL
DatetimeOf(ord, ymd, sec) ==
    IF ord < 1 \/ ord > MAXORDINAL
    THEN [ok |-> FALSE, year |-> 0, month |-> 0, day |-> 0,
          hour |-> 0, minute |-> 0, second |-> 0]
    ELSE [ok |-> TRUE, year |-> ymd[1], month |-> ymd[2], day |-> ymd[3],
          hour |-> sec \div 3600, minute |-> (sec % 3600) \div 60,
          second |-> sec % 60]

\* The ordinal and the seconds, normalised by divmod(seconds, 86400)
DatetimeNorm(ord, secs) ==
    DatetimeOf(ord + secs \div 86400, Ord2Ymd(ord + secs \div 86400), secs % 86400)

\* The offset taken from the time of day alone, the date left as it is
DatetimeSub_HourOnly(y, m, d, h, mi, secs) ==
    DatetimeOf(Ymd2Ord(y, m, d), <<y, m, d>>, (h * 3600 + mi * 60 - secs) % 86400)

\* dt_local - timedelta(seconds=secs)
DatetimeSub(y, m, d, h, mi, secs) ==
    DatetimeNorm(Ymd2Ord(y, m, d), h * 3600 + mi * 60 - secs)

\* swe.julday(year, month, day, hour + minute/60.0), Gregorian calendar.  The
\* result k - 0.5 + t/1440 days is kept as <<k, t>>, t in minutes.
Julday(year, month, day, hour, minute) ==
    LET u   == IF month < 3 THEN year - 1 ELSE year
        u0  == u + 4712
        u1  == IF month + 1 < 4 THEN month + 13 ELSE month + 1
        au  == IF u < 0 THEN 0 - u ELSE u
        u2a == au \div 100 - au \div 400
        u2  == IF u < 0 THEN 0 - u2a ELSE u2a
        adj == IF u < 0 /\ u % 100 = 0 /\ u % 400 # 0 THEN 1 ELSE 0
        k   == (u0 * 1461) \div 4 + (306 * u1) \div 10 + day - 63 - u2 + 2 - adj
    IN  <<k, hour * 60 + minute>>

(***************************************************************************)
(* AstroCalc.__init__ and _compute_julian_day                              *)
(***************************************************************************)

NoDatetime ==
    [ok |-> FALSE, year |-> 0, month |-> 0, day |-> 0,
     hour |-> 0, minute |-> 0, second |-> 0]

NoJulianDay == <<-1, -1>>

\* _compute_julian_day() left by an exception
JulianFailed(e) ==
    [ok |-> FALSE, error |-> e, julian_day |-> NoJulianDay,
     dt_ut |-> NoDatetime, lat |-> 0, lon |-> 0]

\* self.julian_day = swe.julday(...); self.lat; self.lon
JulianOfUt(b, ut) ==
    IF ~ut.ok THEN JulianFailed("OverflowError")
    ELSE [ok |-> TRUE, error |-> "",
          julian_day |-> Julday(ut.year, ut.month, ut.day, ut.hour, ut.minute),
          dt_ut |-> ut, lat |-> b.lat, lon |-> b.lon]

\* dt_local = datetime(year, month, day, hour, minute); dt_ut = dt_local - timedelta
JulianOfFields(b, year, month, day, hour, minute) ==
    IF ~ValidDatetime(year, month, day, hour, minute) THEN JulianFailed("ValueError")
    ELSE JulianOfUt(b, DatetimeSub(year, month, day, hour, minute,
                                   TimedeltaHours(b.tz)))

\* [int(x) for x in s.split(sep)]
IntFields(s, sep) == [i \in 1..Len(StrSplit(s, sep)) |-> PyInt(StrSplit(s, sep)[i])]

\* year, month, day = ...; hour, minute = ...: ValueError unless three and two
\* integers
JulianOfInts(b, dints, tints) ==
    IF \/ Len(dints) # 3 \/ \E i \in 1..Len(dints) : ~dints[i].ok
       \/ Len(tints) # 2 \/ \E i \in 1..Len(tints) : ~tints[i].ok
    THEN JulianFailed("ValueError")
    ELSE JulianOfFields(b, dints[1].val, dints[2].val, dints[3].val,
                        tints[1].val, tints[2].val)

\* _compute_julian_day(): what it leaves on the object, or the exception
ComputeJulianDay(b) == JulianOfInts(b, IntFields(b.date, "-"), IntFields(b.time, ":"))

(***************************************************************************)
(* app.py                                                                  *)
(***************************************************************************)

\* PLACE_DICT, latitudes and longitudes in 1e-4 degree
PLACE_DICT == <<
    [key |-> <<"d", "e", "l", "h", "i">>,
     lat |-> 287041, lon |-> 771025],
    [key |-> <<"n", "e", "w", " ", "d", "e", "l", "h", "i">>,
     lat |-> 286139, lon |-> 772090],
    [key |-> <<"k", "o", "l", "k", "a", "t", "a">>,
     lat |-> 225726, lon |-> 883639],
    [key |-> <<"m", "u", "m", "b", "a", "i">>,
     lat |-> 190760, lon |-> 728777],
    [key |-> <<"c", "h", "e", "n", "n", "a", "i">>,
     lat |-> 130827, lon |-> 802707],
    [key |-> <<"b", "a", "n", "g", "a", "l", "o", "r", "e">>,
     lat |-> 129716, lon |-> 775946],
    [key |-> <<"h", "y", "d", "e", "r", "a", "b", "a", "d">>,
     lat |-> 173850, lon |-> 784867],
    [key |-> <<"j", "a", "i", "p", "u", "r">>,
     lat |-> 269124, lon |-> 757873],
    [key |-> <<"l", "u", "c", "k", "n", "o", "w">>,
     lat |-> 268467, lon |-> 809462],
    [key |-> <<"k", "a", "n", "p", "u", "r">>,
     lat |-> 264499, lon |-> 803319],
    [key |-> <<"p", "u", "n", "j", "a", "b">>,
     lat |-> 311471, lon |-> 753412],
    [key |-> <<"c", "h", "a", "n", "d", "i", "g", "a", "r", "h">>,
     lat |-> 307333, lon |-> 767794],
    [key |-> <<"a", "g", "r", "a">>,
     lat |-> 271767, lon |-> 780081],
    [key |-> <<"v", "a", "r", "a", "n", "a", "s", "i">>,
     lat |-> 253176, lon |-> 829739],
    [key |-> <<"a", "h", "m", "e", "d", "a", "b", "a", "d">>,
     lat |-> 230225, lon |-> 725714],
    [key |-> <<"k", "o", "c", "h", "i">>,
     lat |-> 99312, lon |-> 762673],
    [key |-> <<"p", "a", "t", "n", "a">>,
     lat |-> 255941, lon |-> 851376],
    [key |-> <<"g", "u", "r", "g", "a", "o", "n">>,
     lat |-> 284595, lon |-> 770266],
    [key |-> <<"n", "o", "i", "d", "a">>,
     lat |-> 285355, lon |-> 773910],
    [key |-> <<"p", "e", "r", "s", "o", "n", " ", "a">>,
     lat |-> 286139, lon |-> 772090],
    [key |-> <<"p", "e", "r", "s", "o", "n", " ", "b">>,
     lat |-> 287041, lon |-> 771025],
    [key |-> <<"p", "e", "r", "s", "o", "n", " ", "c">>,
     lat |-> 311471, lon |-> 753412],
    [key |-> <<"r", "a", "j", "a", "s", "t", "h", "a", "n">>,
     lat |-> 270238, lon |-> 742179],
    [key |-> <<"m", "a", "d", "h", "y", "a", " ", "p", "r", "a", "d", "e", "s", "h">>,
     lat |-> 229734, lon |-> 786569],
    [key |-> <<"u", "t", "t", "a", "r", " ", "p", "r", "a", "d", "e", "s", "h">>,
     lat |-> 268467, lon |-> 809462],
    [key |-> <<"b", "e", "n", "g", "a", "l">>,
     lat |-> 229786, lon |-> 877478]>>

NoPlace == [key |-> <<>>, lat |-> 0, lon |-> 0]

InPlaceDict(key) == \E i \in 1..Len(PLACE_DICT) : PLACE_DICT[i].key = key

PlaceEntry(key) == PLACE_DICT[CHOOSE i \in 1..Len(PLACE_DICT) : PLACE_DICT[i].key = key]

\* An argument that is None
None == <<"None">>

\* lookup_place(place_text): [found, info]
LookupPlace(place_text) ==
    IF place_text = None \/ place_text = <<>> THEN [found |-> FALSE, info |-> NoPlace]
    ELSE LET key    == StrLower(StrStrip(place_text))
             tokens == StrSplitBlank(StrReplace(key, ",", " "))
             hits   == {i \in 1..Len(tokens) : InPlaceDict(tokens[i])}
         IN  IF InPlaceDict(key) THEN [found |-> TRUE, info |-> PlaceEntry(key)]
             ELSE IF hits # {}
                  THEN [found |-> TRUE,
                        info |-> PlaceEntry(tokens[CHOOSE i \in hits :
                                                     \A j \in hits : i <= j])]
                  ELSE [found |-> FALSE, info |-> NoPlace]

\* The keyword lists of answer_query
KW_MANGLIK == <<<<"m", "a", "n", "g", "l", "i", "k">>,
                 <<"m", "a", "n", "g", "a", "l">>,
                 <<"m", "a", "n", "g", "l", "i", "k", " ", "d", "o", "s", "h", "a">>>>

KW_MOON == <<<<"m", "o", "o", "n", " ", "s", "i", "g", "n">>,
              <<"m", "o", "o", "n">>,
              <<"c", "h", "a", "n", "d", "r", "a">>>>

KW_DASHA == <<<<"d", "a", "s", "h", "a">>,
               <<"m", "a", "h", "a", "d", "a", "s", "h", "a">>,
               <<"v", "i", "m", "s", "h", "o", "t", "t", "a", "r", "i">>>>

KW_CHART == <<<<"c", "h", "a", "r", "t">>,
               <<"h", "o", "u", "s", "e", "s">>,
               <<"h", "o", "u", "s", "e">>,
               <<"f", "u", "l", "l", " ", "c", "h", "a", "r", "t">>,
               <<"s", "h", "o", "w", " ", "c", "h", "a", "r", "t">>>>

\* any(k in q for k in keywords)
AnyIn(keywords, q) == \E i \in 1..Len(keywords) : StrContains(q, keywords[i])

NoChart == [set |-> FALSE]

ManglikAnswer(m) ==
    [intent |-> "manglik", answer |-> m.conclusion, explanation |-> m.explanation,
     data_used |-> [mars_longitude |-> m.mars_longitude, mars_house |-> m.mars_house],
     rule |-> "Mars in houses 1,2,4,7,8,12 from Ascendant"]

MoonAnswer(s) ==
    [intent |-> "moon_sign", answer |-> s.moon_sign, explanation |-> s.explanation,
     data_used |-> [moon_longitude |-> s.moon_longitude],
     rule |-> "Moon sign = zodiac sign containing Moon longitude"]

DashaAnswer(d) ==
    [intent |-> "dasha", answer |-> d.mahadasha, explanation |-> d.explanation,
     data_used |-> [moon_longitude |-> d.moon_longitude],
     rule |-> "Simplified Vimshottari based on Moon nakshatra index"]

ChartAnswer(computed) ==
    [intent |-> "chart", answer |-> "Computed chart attached",
     explanation |-> "See computed data", data_used |-> computed]

ComputedAnswer(computed) ==
    [intent |-> "computed", answer |-> "Computed chart attached",
     explanation |-> "No specific intent detected.", data_used |-> computed]

\* The answers appended by the four keyword tests, in their order
IntentAnswers(e, computed, q) ==
    (IF AnyIn(KW_MANGLIK, q) THEN <<ManglikAnswer(ManglikCheck(e))>> ELSE <<>>)
        \o (IF AnyIn(KW_MOON, q) THEN <<MoonAnswer(MoonSignGet(e))>> ELSE <<>>)
        \o (IF AnyIn(KW_DASHA, q) THEN <<DashaAnswer(CurrentDasha(e))>> ELSE <<>>)
        \o (IF AnyIn(KW_CHART, q) THEN <<ChartAnswer(computed)>> ELSE <<>>)

\* The 'computed' answer appended whatever the question matched
WithFallback_Always(answers, computed) ==
    answers \o <<ComputedAnswer(computed)>>

\* if not answers: answers.append(the computed data)
WithFallback(answers, computed) ==
    IF answers = <<>> THEN <<ComputedAnswer(computed)>> ELSE answers

\* The answers list of answer_query, for the lowered question q
Answers(e, computed, q) == WithFallback(IntentAnswers(e, computed, q), computed)

\* The ephemeris calls answer_query makes once the chart is built
AnswersCalls(q) ==
    (IF AnyIn(KW_MANGLIK, q) THEN ManglikCheckCalls ELSE <<>>)
        \o (IF AnyIn(KW_MOON, q) THEN MoonSignGetCalls ELSE <<>>)
        \o (IF AnyIn(KW_DASHA, q) THEN CurrentDashaCalls ELSE <<>>)

\* answer_query left by an exception
QueryRaised(info, err) ==
    [kind |-> "raised", error |-> err, place_used |-> info,
     computed |-> NoChart, answers |-> <<>>, calls |-> <<>>]

\* The response, once compute_all() has returned
QueryAnswered(e, info, computed, q) ==
    [kind |-> "ok", error |-> "", place_used |-> info,
     computed |-> [set |-> TRUE, val |-> computed],
     answers |-> Answers(e, computed, q),
     calls |-> ComputeAllCalls \o AnswersCalls(q)]

\* calc = AstroCalc(birth); computed = calc.compute_all()
QueryOfCalc(e, info, jd, q) ==
    IF ~jd.ok THEN QueryRaised(info, jd.error)
    ELSE QueryAnswered(e, info, ComputeAll(e, jd.julian_day), q)

\* birth = {...}: float(tz) raises ValueError
QueryOfBirth(e, info, dob, time, tzf, q) ==
    IF ~tzf.ok THEN QueryRaised(info, "ValueError")
    ELSE QueryOfCalc(e, info,
                     ComputeJulianDay([date |-> StrStrip(dob), time |-> StrStrip(time),
                                       lat |-> info.lat, lon |-> info.lon,
                                       tz |-> tzf.val]),
                     q)

\* if place_info is None: return the error
QueryOfPlace(e, found, dob, time, tz, question) ==
    IF ~found.found
    THEN [kind |-> "error", error |-> "Place not found in offline database.",
          place_used |-> NoPlace, computed |-> NoChart, answers |-> <<>>,
          calls |-> <<>>]
    ELSE QueryOfBirth(e, found.info, dob, time, PyFloat(tz),
                      StrLower(IF question = None THEN <<>> ELSE question))

\* answer_query(dob, time, place, tz, question): what it returns, or that it
\* raised, and the ephemeris calls it made
AnswerQueryResult(e, dob, time, place, tz, question) ==
    QueryOfPlace(e, LookupPlace(place), dob, time, tz, question)

(***************************************************************************)
(* The inputs the model draws from                                         *)
(***************************************************************************)

\* How many floats on each side of a house boundary are sampled
NearUlps == 2

\* The floats around the house boundaries (the multiples of 30 degrees) and
\* the middle of every house
HouseSamples ==
    {n \in Floats360 :
        \E k \in 0..12 :
            LET b == 30 * k * One
            IN  n - b <= NearUlps * Ulp(n) /\ b - n <= NearUlps * Ulp(n)}
    \cup {(30 * k + 15) * One : k \in 0..11}

\* Raw longitudes the provider returns for Mars: the middle of every sign,
\* and two sign boundaries
MarsSamples == {(30 * k + 15) * One : k \in 0..11} \cup {100 * One, 210 * One}

\* Raw ascendants: 0, the float next above 100 degrees, 345 degrees
AscSamples == {0, 100 * One + Ulp(100 * One), 345 * One}

\* Raw longitudes of the Moon: starts of nakshatras and points inside them
MoonSamples == {0, NakDeg, 100 * One}

\* The provider's answers for one instant and place
EphTable(mars, moon, asc) ==
    [lon |-> [Sun |-> 15 * One, Moon |-> moon, Mars |-> mars, Mercury |-> 200 * One,
              Jupiter |-> 95 * One, Venus |-> 310 * One, Saturn |-> 271 * One],
     asc |-> asc]

EphTables ==
    {EphTable(mars, moon, asc) : mars \in MarsSamples, moon \in MoonSamples,
                                 asc \in AscSamples}

EphTablesFew ==
    {EphTable(mars, moon, 100 * One) : mars \in {15 * One, 105 * One},
                                       moon \in {0, 40 * One}}

\* birth['date'] for the object on its own
DatesFew ==
    {<<"2", "0", "0", "6", "-", "1", "0", "-", "1", "2">>,
     <<"2", "0", "0", "6", "-", "0", "1", "-", "0", "1">>,
     <<"2", "0", "0", "6", "-", "1", "3", "-", "1", "2">>,
     <<"2", "0", "0", "6", "-", "0", "2", "-", "3", "0">>,
     <<"x", "-", "1", "0", "-", "1", "2">>,
     <<"2", "0", "0", "6", "-", "1", "0">>,
     <<"0", "0", "0", "1", "-", "0", "1", "-", "0", "1">>}

\* birth['time'] for the object on its own, and the time argument of answer_query
TimesFew ==
    {<<"2", "0", ":", "2", "7">>,
     <<"0", "0", ":", "0", "0">>,
     <<"2", "4", ":", "0", "0">>,
     <<"2", "0", ":", "6", "0">>}

\* birth['date'] for the time conversion: month ends, year ends, leap days,
\* the first and the last year, and strings that name no date
DateSamples ==
    {<<"2", "0", "0", "6", "-", "1", "0", "-", "1", "2">>,
     <<"2", "0", "0", "6", "-", "0", "1", "-", "0", "1">>,
     <<"2", "0", "0", "6", "-", "1", "2", "-", "3", "1">>,
     <<"2", "0", "0", "4", "-", "0", "3", "-", "0", "1">>,
     <<"2", "0", "0", "5", "-", "0", "3", "-", "0", "1">>,
     <<"0", "0", "0", "1", "-", "0", "1", "-", "0", "1">>,
     <<"9", "9", "9", "9", "-", "1", "2", "-", "3", "1">>,
     <<" ", "2", "0", "0", "6", " ", "-", " ", "1", "0", " ", "-", "1", "2">>,
     <<"2", "0", "0", "6", "-", "0", "2", "-", "3", "0">>,
     <<"x", "-", "1", "0", "-", "1", "2">>}

\* birth['time'] for the time conversion
TimeSamples ==
    {<<"2", "0", ":", "2", "7">>,
     <<"0", "0", ":", "0", "0">>,
     <<"2", "3", ":", "5", "9">>,
     <<"2", "4", ":", "0", "0">>,
     <<"a", "b", ":", "c", "d">>}

\* The dob argument of answer_query
DobSamples ==
    {<<"2", "0", "0", "6", "-", "1", "0", "-", "1", "2">>,
     <<" ", "2", "0", "0", "6", "-", "0", "1", "-", "0", "1", " ">>,
     <<"2", "0", "0", "6", "-", "1", "3", "-", "1", "2">>,
     <<"2", "0", "0", "6", "-", "0", "2", "-", "3", "0">>,
     <<"1", "2", "/", "1", "0", "/", "2", "0", "0", "6">>}

\* The place argument of answer_query
PlaceSamples ==
    {<<"D", "e", "l", "h", "i">>,
     <<" ", "n", "e", "w", " ", "d", "e", "l", "h", "i", " ">>,
     <<"N", "e", "w", " ", " ", "D", "e", "l", "h", "i">>,
     <<"M", "u", "m", "b", "a", "i", ",", " ", "I", "n", "d", "i", "a">>,
     <<"s", "o", "u", "t", "h", " ", "d", "e", "l", "h", "i", ",", "m", "u", "m", "b", "a", "i">>,
     <<"P", "a", "r", "i", "s">>,
     <<>>,
     None}

\* The tz argument of answer_query
TzStrings ==
    {<<"5", ".", "5">>,
     <<"-", "5">>,
     <<"a", "b", "c">>}

\* The question argument of answer_query
QuestionSamples ==
    {<<>>,
     <<"A", "m", " ", "I", " ", "M", "a", "n", "g", "l", "i", "k", "?">>,
     <<"W", "h", "a", "t", " ", "i", "s", " ", "m", "y", " ", "M", "o", "o", "n", " ", "s", "i", "g", "n", "?">>,
     <<"W", "h", "i", "c", "h", " ", "M", "a", "h", "a", "d", "a", "s", "h", "a", " ", "a", "m", " ", "I", " ", "i", "n", "?">>,
     <<"s", "h", "o", "w", " ", "c", "h", "a", "r", "t">>,
     <<"H", "o", "w", " ", "i", "s", " ", "m", "y", " ", "c", "a", "r", "e", "e", "r", "?">>,
     <<"M", "O", "O", "N", "L", "I", "G", "H", "T">>,
     <<"m", "a", "n", "g", "a", "l", ",", " ", "c", "h", "a", "n", "d", "r", "a", ",", " ", "v", "i", "m", "s", "h", "o", "t", "t", "a", "r", "i", " ", "a", "n", "d", " ", "h", "o", "u", "s", "e", "s">>,
     <<"m", "a", "n", " ", "g", "l", "i", "k">>,
     None}


\* Timezone offsets, in hundredths of an hour
TzSamples == {550, 549, -500}

Births(dates, times, tzs) ==
    {[date |-> d, time |-> t, tz |-> z, lat |-> 286139, lon |-> 772090] :
        d \in dates, t \in times, z \in tzs}

\* The arguments of answer_query
Requests ==
    [dob : DobSamples, time : TimesFew, place : PlaceSamples, tz : TzStrings,
     question : QuestionSamples]

BirthsMain == Births(DatesFew, TimesFew, {550})

BirthsTime == Births(DateSamples, TimeSamples, TzSamples)

(***************************************************************************)
(* States and actions                                                      *)
(***************************************************************************)

NoBirth == [date |-> <<>>, time |-> <<>>, tz |-> 0, lat |-> 0, lon |-> 0]

NoResult == [set |-> FALSE]

Result(v) == [set |-> TRUE, val |-> v]

NoPrev == [set |-> FALSE, dt_ut |-> NoDatetime, julian_day |-> NoJulianDay]

NoRequest == [dob |-> <<>>, time |-> <<>>, place |-> <<>>, tz |-> <<>>,
              question |-> <<>>]

InitObject ==
    /\ birth = NoBirth
    /\ pc = "new"
    /\ julian_day = NoJulianDay
    /\ lat = 0
    /\ lon = 0
    /\ dt_ut = NoDatetime
    /\ nconv = 0
    /\ prev = NoPrev

InitResults ==
    /\ calls = <<>>
    /\ op = "none"
    /\ chart = NoResult
    /\ manglik = NoResult
    /\ moonres = NoResult
    /\ dasha = NoResult

InitRequest ==
    /\ request = NoRequest
    /\ response = NoResult

InitFun ==
    /\ arg = NoResult
    /\ ret = NoResult

\* What AstroCalc(b) leaves behind: the object's attributes, or the exception
\* with no attribute set
Built(b) ==
    LET r == ComputeJulianDay(b)
    IN  /\ birth' = b
        /\ pc' = IF r.ok THEN "constructed" ELSE "error"
        /\ julian_day' = r.julian_day
        /\ lat' = r.lat
        /\ lon' = r.lon
        /\ dt_ut' = r.dt_ut
        /\ nconv' = 1
        /\ calls' = <<>>
        /\ op' = "__init__"
        /\ chart' = NoResult
        /\ manglik' = NoResult
        /\ moonres' = NoResult
        /\ dasha' = NoResult

\* ac = AstroCalc(birth), until an object is built
Construct ==
    /\ pc # "constructed"
    /\ \E b \in BirthsMain : Built(b)
    /\ UNCHANGED <<prev, todo, eph, request, response, arg, ret>>

\* ac = AstroCalc(birth) for the next birth dictionary: another object, after
\* the one before
ConstructNext ==
    /\ todo # <<>>
    /\ Built(Head(todo))
    /\ todo' = Tail(todo)
    /\ prev' = IF pc = "constructed"
               THEN [set |-> TRUE, dt_ut |-> dt_ut, julian_day |-> julian_day]
               ELSE prev
    /\ UNCHANGED <<eph, request, response, arg, ret>>

\* ac.compute_all()
DoComputeAll ==
    /\ pc = "constructed"
    /\ chart' = Result(ComputeAll(eph, julian_day))
    /\ calls' = ComputeAllCalls
    /\ op' = "compute_all"
    /\ UNCHANGED <<objVars, eph, manglik, moonres, dasha, request, response, arg, ret>>

\* ManglikRule(ac).check()
DoManglikCheck ==
    /\ pc = "constructed"
    /\ manglik' = Result(ManglikCheck(eph))
    /\ calls' = ManglikCheckCalls
    /\ op' = "check"
    /\ UNCHANGED <<objVars, eph, chart, moonres, dasha, request, response, arg, ret>>

\* MoonSignRule(ac).get()
DoMoonSignGet ==
    /\ pc = "constructed"
    /\ moonres' = Result(MoonSignGet(eph))
    /\ calls' = MoonSignGetCalls
    /\ op' = "get"
    /\ UNCHANGED <<objVars, eph, chart, manglik, dasha, request, response, arg, ret>>

\* VimshottariDasha(ac).current_dasha()
DoCurrentDasha ==
    /\ pc = "constructed"
    /\ dasha' = Result(CurrentDasha(eph))
    /\ calls' = CurrentDashaCalls
    /\ op' = "current_dasha"
    /\ UNCHANGED <<objVars, eph, chart, manglik, moonres, request, response, arg, ret>>

\* answer_query(dob, time, place, tz, question)
AnswerQuery ==
    LET r == AnswerQueryResult(eph, request.dob, request.time, request.place,
                               request.tz, request.question)
    IN  /\ response' = Result([kind |-> r.kind, error |-> r.error,
                               place_used |-> r.place_used,
                               computed |-> r.computed, answers |-> r.answers])
        /\ calls' = r.calls
        /\ op' = "answer_query"
        /\ UNCHANGED <<objVars, eph, resVars, request, arg, ret>>

\* house_of_planet(planet_long), on its own
ApplyHouseOfPlanet ==
    /\ ret' = Result(HouseOfPlanet(eph, arg.val))
    /\ calls' = HouseOfPlanetCalls
    /\ op' = "house_of_planet"
    /\ UNCHANGED <<objVars, eph, resVars, reqVars, arg>>

\* current_dasha(), on its own: its locals at the return
ApplyCurrentDasha ==
    /\ ret' = Result(DashaLocals(PlanetLongitudes(eph)["Moon"]))
    /\ calls' = CurrentDashaCalls
    /\ op' = "current_dasha"
    /\ UNCHANGED <<objVars, eph, resVars, reqVars, arg>>

(***************************************************************************)
(* Specifications                                                          *)
(***************************************************************************)

\* One AstroCalc and the rules applied to it, over the provider's tables
Init ==
    /\ InitObject /\ todo = <<>> /\ InitResults /\ InitRequest /\ InitFun
    /\ eph \in EphTables

Next ==
    \/ Construct
    \/ DoComputeAll
    \/ DoManglikCheck
    \/ DoMoonSignGet
    \/ DoCurrentDasha

Spec == Init /\ [][Next]_vars

\* The time conversion: objects built one after the other
InitTime ==
    /\ InitObject /\ InitResults /\ InitRequest /\ InitFun
    /\ \E b1 \in BirthsTime, b2 \in BirthsTime : todo = <<b1, b2>>
    /\ eph = EphTable(15 * One, 0, 0)

NextTime == ConstructNext

SpecTime == InitTime /\ [][NextTime]_vars

\* answer_query
InitQuery ==
    /\ InitObject /\ todo = <<>> /\ InitResults /\ InitFun
    /\ request \in Requests
    /\ response = NoResult
    /\ eph \in EphTablesFew

NextQuery == AnswerQuery

SpecQuery == InitQuery /\ [][NextQuery]_vars

\* house_of_planet over the sampled longitudes and ascendants
InitHouse ==
    /\ InitObject /\ todo = <<>> /\ InitResults /\ InitRequest
    /\ \E l \in HouseSamples : arg = Result(l)
    /\ ret = NoResult
    /\ \E a \in HouseSamples : eph = EphTable(15 * One, 0, a)

NextHouse == ApplyHouseOfPlanet

SpecHouse == InitHouse /\ [][NextHouse]_vars

\* current_dasha over every Moon longitude in [0, 360)
InitDasha ==
    /\ InitObject /\ todo = <<>> /\ InitResults /\ InitRequest
    /\ \E m \in Floats360 : arg = Result(m) /\ eph = EphTable(15 * One, m, 0)
    /\ ret = NoResult

NextDasha == ApplyCurrentDasha

SpecDasha == InitDasha /\ [][NextDasha]_vars

(***************************************************************************)
(* Properties                                                              *)
(***************************************************************************)

\* C1: for every planet longitude L and ascendant A in [0, 360),
\* house_of_planet returns floor(((L - A) mod 360) / 30) + 1, an integer in
\* 1..12; a planet at the ascendant is in house 1, and with A = 0 the house is
\* floor(L / 30) + 1.
C1_HouseFormula ==
    ret.set =>
        LET L == arg.val
            A == eph.asc
        IN  /\ ret.val = (((L - A) % (360 * One)) \div (30 * One)) + 1
            /\ ret.val \in 1..12
            /\ (L = A => ret.val = 1)
            /\ (A = 0 => ret.val = (L \div (30 * One)) + 1)

\* C2: ManglikRule.check returns trigger = True and 'Manglik' exactly when the
\* house it reports for Mars is one of 1, 2, 4, 7, 8, 12, and trigger = False
\* and 'Not Manglik' otherwise; house 8 is Manglik, house 9 is not.
C2_ManglikIffTriggerHouse ==
    manglik.set =>
        LET m == manglik.val
        IN  /\ m.trigger <=> m.mars_house \in {1, 2, 4, 7, 8, 12}
            /\ m.trigger => m.conclusion = "Manglik"
            /\ ~m.trigger => m.conclusion = "Not Manglik"
            /\ m.mars_house \in {3, 5, 6, 9, 10, 11} => ~m.trigger
            /\ m.mars_house = 8 => m.conclusion = "Manglik"
            /\ m.mars_house = 9 => m.conclusion = "Not Manglik"

C2_Witness ==
    /\ manglik.set
    /\ manglik.val.mars_house = 8
    /\ manglik.val.trigger
    /\ manglik.val.conclusion = "Manglik"

\* C3: for every Moon longitude in [0, 360) the nakshatra index is
\* floor(moonLongitude / (360/27)), it lies in 0..26, and the lord returned is
\* SEQUENCE at position index mod 9; longitude 0 gives Ketu and a longitude of
\* one nakshatra width gives Venus.
C3_NakshatraIndexAndLord ==
    ret.set =>
        LET m   == arg.val
            idx == (27 * m) \div (360 * One)
        IN  /\ ret.val.nak_index = idx
            /\ ret.val.nak_index \in 0..26
            /\ ret.val.first_lord = SEQUENCE[(idx % 9) + 1]
            /\ (m = 0 => ret.val.first_lord = "Ketu")
            /\ (m = NakDeg => ret.val.first_lord = "Venus")

\* The calendar day after and the calendar day before <<year, month, day>>
C4_LastDay(y, m) ==
    IF m \in {4, 6, 9, 11} THEN 30
    ELSE IF m # 2 THEN 31
    ELSE IF (y % 4 = 0 /\ y % 100 # 0) \/ y % 400 = 0 THEN 29 ELSE 28

C4_NextDay(t) ==
    IF t[3] < C4_LastDay(t[1], t[2]) THEN <<t[1], t[2], t[3] + 1>>
    ELSE IF t[2] < 12 THEN <<t[1], t[2] + 1, 1>>
    ELSE <<t[1] + 1, 1, 1>>

C4_PrevDay(t) ==
    IF t[3] > 1 THEN <<t[1], t[2], t[3] - 1>>
    ELSE IF t[2] > 1 THEN <<t[1], t[2] - 1, C4_LastDay(t[1], t[2] - 1)>>
    ELSE <<t[1] - 1, 12, 31>>

RECURSIVE C4_ShiftDay(_, _)
C4_ShiftDay(t, n) ==
    IF n = 0 THEN t
    ELSE IF n > 0 THEN C4_ShiftDay(C4_NextDay(t), n - 1)
    ELSE C4_ShiftDay(C4_PrevDay(t), n + 1)

\* The Julian Day Number of a Gregorian date (Fliegel and Van Flandern)
C4_JDN(y, m, d) ==
    LET a == IF m <= 2 THEN 1 ELSE 0
    IN  (1461 * (y + 4800 - a)) \div 4 + (367 * (m - 2 + 12 * a)) \div 12
            - (3 * ((y + 4900 - a) \div 100)) \div 4 + d - 32075

C5_BadDates ==
    {<<"2", "0", "0", "6", "-", "1", "3", "-", "1", "2">>,
     <<"2", "0", "0", "6", "-", "0", "2", "-", "3", "0">>,
     <<"x", "-", "1", "0", "-", "1", "2">>,
     <<"2", "0", "0", "6", "-", "1", "0">>}

C5_BadTimes ==
    {<<"2", "4", ":", "0", "0">>,
     <<"2", "0", ":", "6", "0">>}

\* C5: a date or time string that cannot be parsed into integers or names an
\* impossible calendar datetime makes the construction of AstroCalc fail
\* before any ephemeris call; no chart and no rule result comes from it.
C5_MalformedFails ==
    (birth.date \in C5_BadDates \/ birth.time \in C5_BadTimes) =>
        /\ pc = "error"
        /\ julian_day = NoJulianDay
        /\ calls = <<>>
        /\ chart = NoResult
        /\ manglik = NoResult
        /\ moonres = NoResult
        /\ dasha = NoResult

C5_Witness ==
    /\ pc = "error"
    /\ birth.date = <<"2", "0", "0", "6", "-", "0", "2", "-", "3", "0">>
    /\ birth.time = <<"2", "0", ":", "2", "7">>
    /\ calls = <<>>

\* How many times a call occurs in a sequence of calls
C6_Count(s, c) == Cardinality({i \in 1..Len(s) : s[i] = c})

\* C6: compute_all on a freshly constructed AstroCalc performs exactly one
\* time conversion and exactly 8 ephemeris sub-calls, one longitude request
\* per planet and one ascendant request.
C6_EightCalls ==
    op = "compute_all" =>
        /\ nconv = 1
        /\ Len(calls) = 8
        /\ C6_Count(calls, "houses") = 1
        /\ \A name \in PlanetNames : C6_Count(calls, name) = 1

\* C7: the remaining years are length(lord) * (1 - proportion) with the
\* proportion in [0, 1): greater than 0, at most the lord's full period, and
\* the full period at the start of a nakshatra.
C7_RemainingYears ==
    ret.set =>
        LET l == ret.val
        IN  /\ l.prop >= 0 /\ l.prop < One
            /\ l.remaining_years_first > 0
            /\ l.remaining_years_first <= LENGTHS[l.first_lord] * One
            /\ (l.deg_into_nak = 0
                => l.remaining_years_first = LENGTHS[l.first_lord] * One)

\* Requests of the model whose place is in the dictionary, whose date, time
\* and tz are well formed, and whose question holds no keyword
C8_FoundPlaces ==
    {<<"D", "e", "l", "h", "i">>,
     <<" ", "n", "e", "w", " ", "d", "e", "l", "h", "i", " ">>,
     <<"N", "e", "w", " ", " ", "D", "e", "l", "h", "i">>,
     <<"M", "u", "m", "b", "a", "i", ",", " ", "I", "n", "d", "i", "a">>,
     <<"s", "o", "u", "t", "h", " ", "d", "e", "l", "h", "i", ",", "m", "u", "m", "b", "a", "i">>}

C8_GoodDobs ==
    {<<"2", "0", "0", "6", "-", "1", "0", "-", "1", "2">>,
     <<" ", "2", "0", "0", "6", "-", "0", "1", "-", "0", "1", " ">>}

C8_GoodTimes ==
    {<<"2", "0", ":", "2", "7">>,
     <<"0", "0", ":", "0", "0">>}

C8_GoodTz ==
    {<<"5", ".", "5">>,
     <<"-", "5">>}

C8_NoKeyword ==
    {<<>>,
     <<"H", "o", "w", " ", "i", "s", " ", "m", "y", " ", "c", "a", "r", "e", "e", "r", "?">>,
     <<"m", "a", "n", " ", "g", "l", "i", "k">>,
     None}

C8_Intents(answers) == {answers[i].intent : i \in 1..Len(answers)}

\* What C8 says of the answers of a response
C8_Answers(r) ==
    /\ r.kind = "ok"
    /\ r.answers # <<>>
    /\ request.question \in C8_NoKeyword
        => /\ Len(r.answers) = 1
           /\ r.answers[1].intent = "computed"
           /\ r.computed.set /\ r.answers[1].data_used = r.computed.val
    /\ "computed" \in C8_Intents(r.answers) => C8_Intents(r.answers) = {"computed"}
    /\ request.question \notin C8_NoKeyword => "computed" \notin C8_Intents(r.answers)

\* C8: for every request whose place is found, answer_query returns a
\* non-empty list of answers; with no keyword in the question it is the one
\* answer 'computed' with the chart, which never comes with another answer.
C8_FallbackAnswer ==
    (response.set /\ request.place \in C8_FoundPlaces) => C8_Answers(response.val)

\* C8, amended: the same, for every request whose place is found and whose
\* date, time and timezone are well formed (any other request raises).
C8_FallbackAnswerWellFormed ==
    (/\ response.set
     /\ request.place \in C8_FoundPlaces
     /\ request.dob \in C8_GoodDobs
     /\ request.time \in C8_GoodTimes
     /\ request.tz \in C8_GoodTz) => C8_Answers(response.val)

C8_Witness ==
    /\ response.set
    /\ request.place = <<"M", "u", "m", "b", "a", "i", ",", " ", "I", "n", "d", "i", "a">>
    /\ request.question = <<"H", "o", "w", " ", "i", "s", " ", "m", "y", " ", "c", "a", "r", "e", "e", "r", "?">>
    /\ response.val.kind = "ok"
    /\ Len(response.val.answers) = 1
    /\ response.val.answers[1].intent = "computed"

\* The results of the rules agree with the chart
C9_Consistent ==
    /\ (chart.set /\ manglik.set)
        => /\ manglik.val.mars_house = chart.val.houses["Mars"]
           /\ manglik.val.mars_longitude = chart.val.planetary_longitudes["Mars"]
    /\ (chart.set /\ moonres.set)
        => /\ moonres.val.moon_sign = chart.val.moon_sign
           /\ moonres.val.moon_longitude = chart.val.moon_longitude
    /\ (chart.set /\ dasha.set)
        => dasha.val.moon_longitude = chart.val.moon_longitude

\* C9: once an AstroCalc is constructed, no call of compute_all, check, get or
\* current_dasha changes its julian_day, lat, lon or birth; each call returns
\* what it returned before, and the Mars house, Moon sign and Moon longitude
\* of the rules are those of the chart.
C9_CallsAreIndependent ==
    [][/\ pc = "constructed"
          => /\ pc' = "constructed"
             /\ UNCHANGED <<birth, julian_day, lat, lon>>
       /\ (chart.set /\ chart'.set) => chart' = chart
       /\ (manglik.set /\ manglik'.set) => manglik' = manglik
       /\ (moonres.set /\ moonres'.set) => moonres' = moonres
       /\ (dasha.set /\ dasha'.set) => dasha' = dasha
       /\ C9_Consistent']_vars

C9_Witness ==
    /\ pc = "constructed"
    /\ op = "compute_all"
    /\ chart.set /\ manglik.set /\ moonres.set /\ dasha.set
    /\ manglik.val.mars_house = 8
    /\ chart.val.houses["Mars"] = 8

\* The universal instant of a datetime: its day number and second of the day
C10_Instant(dt) ==
    <<C4_JDN(dt.year, dt.month, dt.day), dt.hour * 3600 + dt.minute * 60 + dt.second>>

C10_Before(a, b) == a[1] < b[1] \/ (a[1] = b[1] /\ a[2] < b[2])

\* C10: of two inputs whose universal instants differ, the one with the later
\* universal instant gets the strictly larger Julian Day.
C10_StrictlyMonotonic ==
    (pc = "constructed" /\ prev.set) =>
        /\ C10_Before(C10_Instant(prev.dt_ut), C10_Instant(dt_ut))
            => C10_Before(prev.julian_day, julian_day)
        /\ C10_Before(C10_Instant(dt_ut), C10_Instant(prev.dt_ut))
            => C10_Before(julian_day, prev.julian_day)

====
